---- MODULE Spec2Model ----
(***************************************************************************)
(* Model of src/app.py: a chess-practice program whose engine side is      *)
(* de-tuned towards a target centipawn loss (CPL).                         *)
(*                                                                         *)
(* Python objects are records, Python tuples are TLA+ tuples, and a        *)
(* handler is an operator from the state before it to the state it leaves, *)
(* including the state left behind when it raises.                         *)
(***************************************************************************)
EXTENDS Integers, Sequences, FiniteSets, TLC

VARIABLES
    boardw,           \* the BoardWidget object (src/app.py:121-139)
    win,              \* the MainWindow fields assigned at src/app.py:277-279
    LAST_ENGINE_CPL,  \* module global, the tilt memory (src/app.py:54)
    last,             \* observation: the handler that ran last and its outcome
    fn_in,            \* arguments of a direct call of a module-level function
    fn_out            \* <<>> before that call, <<what it returned>> after it

vars == <<boardw, win, LAST_ENGINE_CPL, last, fn_in, fn_out>>

---------------------------------------------------------------------------
(* Python built-ins *)

Max(a, b) == IF a >= b THEN a ELSE b
Min(a, b) == IF a <= b THEN a ELSE b
Abs(a) == IF a >= 0 THEN a ELSE -a

\* F applied to the value of x: a local name bound to a value computed once
Bind(x, F(_)) == CHOOSE y \in {F(v) : v \in {x}} : TRUE

None == "None"
TypeError == "TypeError"

\* chess.WHITE is True, chess.BLACK is False
WHITE == TRUE
BLACK == FALSE

---------------------------------------------------------------------------
(* Bounds of the model *)

\* longest ranked candidate list drawn for a direct call
MaxLines == 4
\* longest move history explored
MaxPly == 3

---------------------------------------------------------------------------
(* CPL_MODES, src/app.py:29-51 *)

ModeNames ==
    {"Perfecto (~1)", "CPL 15", "CPL 20", "CPL 25", "CPL 30", "CPL 35", "CPL 40",
     "CPL 45", "CPL 50", "CPL 55", "CPL 60", "CPL 65", "CPL 70"}

Tier(d, m, t, p) == [depth |-> d, mpv |-> m, target |-> t, perfect |-> p]

\* the dict literal of lines 29-51 (the first key is written with the sign
\* for "approximately" in the source)
ModesDict ==
    [n \in ModeNames |->
        CASE n = "Perfecto (~1)" -> Tier(18, 4, 1, TRUE)
          [] n = "CPL 15" -> Tier(14, 6, 15, FALSE)
          [] n = "CPL 20" -> Tier(13, 7, 20, FALSE)
          [] n = "CPL 25" -> Tier(13, 8, 25, FALSE)
          [] n = "CPL 30" -> Tier(12, 8, 30, FALSE)
          [] n = "CPL 35" -> Tier(12, 9, 35, FALSE)
          [] n = "CPL 40" -> Tier(10, 10, 40, FALSE)
          [] n = "CPL 45" -> Tier(10, 11, 45, FALSE)
          [] n = "CPL 50" -> Tier(10, 12, 50, FALSE)
          [] n = "CPL 55" -> Tier(11, 13, 55, FALSE)
          [] n = "CPL 60" -> Tier(11, 14, 60, FALSE)
          [] n = "CPL 65" -> Tier(11, 15, 65, FALSE)
          [] n = "CPL 70" -> Tier(8, 16, 70, FALSE)]

\* Line 51 closes the dict literal with "}," : the trailing comma makes the
\* right-hand side of the assignment a tuple of one element, the dict.
CPL_MODES == <<ModesDict>>

\* CPL_MODES[key] (src/app.py:108, 222): subscripting a tuple. A str key
\* raises TypeError ("tuple indices must be integers or slices, not str");
\* an int key in range gives the element (Python counts from 0).
\* The result is [exc, val]: the exception raised (None if none) and the
\* value in a one-element tuple (<<>> when it raises).
CPL_MODES_getitem(key) ==
    IF key \in STRING THEN [exc |-> TypeError, val |-> <<>>]
    ELSE IF key + 1 \in DOMAIN CPL_MODES THEN [exc |-> None, val |-> <<CPL_MODES[key + 1]>>]
    ELSE [exc |-> "IndexError", val |-> <<>>]

\* the targets of the tiers, and those of the tiers that are not perfect
Targets == {ModesDict[n].target : n \in ModeNames}
NonPerfectTargets == {ModesDict[n].target : n \in {m \in ModeNames : ~ModesDict[m].perfect}}

---------------------------------------------------------------------------
(* _choose_by_target_cpl, src/app.py:78-105                                *)
(* A line is the tuple <<mv, cp>>; lines is a non-empty sequence of them.  *)

\* int(x * 0.25), int(x * 0.35), int(x * 0.10) for the integers the program
\* multiplies: Python's int() truncates, and for every tier target and every
\* spread >= 0 the float product truncates to the quotient below.
IntTimesQuarter(x) == x \div 4
IntTimes035(x) == (35 * x) \div 100
IntTimesTenth(x) == x \div 10

\* line 80
best_cp_of(lines) == lines[1][2]

\* line 81
spread_of(lines) ==
    best_cp_of(lines) - (IF Len(lines) > 1 THEN lines[Len(lines)][2] ELSE best_cp_of(lines))

\* the k of line 84: 0.25 below target 60, 0.35 from 60 on
sigma_base(target_cpl) ==
    Max(4, IF target_cpl < 60 THEN IntTimesQuarter(target_cpl) ELSE IntTimes035(target_cpl))

\* line 85
sigma_spread(lines) == Min(30, IntTimesTenth(spread_of(lines)))

\* lines 86-87
sigma_tilt(last_engine_cpl) == IF last_engine_cpl >= 120 THEN 20 ELSE 0

\* lines 84-87
sigma_of(lines, target_cpl, last_engine_cpl) ==
    sigma_base(target_cpl) + sigma_spread(lines) + sigma_tilt(last_engine_cpl)

\* line 89: gauss is int(random.gauss(target_cpl, sigma)), any integer
desired_of(gauss) == Max(0, gauss)

\* line 92
epsilon_of(target_cpl) == Max(3, IntTimesTenth(target_cpl))

\* line 94 / 101
delta_of(lines, i) == Max(0, best_cp_of(lines) - lines[i][2])

\* the acceptance test with the tolerance left out
accepts_without_epsilon(lines, i, desired, epsilon) == delta_of(lines, i) >= desired

\* line 95: the acceptance test of the satisficing scan
accepts(lines, i, desired, epsilon) == delta_of(lines, i) >= Max(0, desired - epsilon)

\* lines 93-96: the index the scan returns at, 0 when the loop runs out
RECURSIVE scan_from(_, _, _, _)
scan_from(lines, i, desired, epsilon) ==
    IF i > Len(lines) THEN 0
    ELSE IF accepts(lines, i, desired, epsilon) THEN i
    ELSE scan_from(lines, i + 1, desired, epsilon)

\* lines 99-104: the fallback loop from index i on, carrying (pick, best_diff);
\* best_diff = -1 stands for float("inf")
RECURSIVE nearest_from(_, _, _, _, _)
nearest_from(lines, i, desired, pick, best_diff) ==
    IF i > Len(lines) THEN pick
    ELSE LET diff == Abs(delta_of(lines, i) - desired)
         IN  IF best_diff = -1 \/ diff < best_diff
             THEN nearest_from(lines, i + 1, desired, i, diff)
             ELSE nearest_from(lines, i + 1, desired, pick, best_diff)

\* lines 78-105: the index of the returned line and the pair it returns
choose_index(lines, target_cpl, gauss) ==
    LET desired == desired_of(gauss)
        hit == scan_from(lines, 1, desired, epsilon_of(target_cpl))
    IN  IF hit # 0 THEN hit ELSE nearest_from(lines, 1, desired, 1, -1)

\* the loss returned with the sign of the difference turned round
choose_signed_loss(lines, target_cpl, last_engine_cpl, gauss) ==
    LET i == choose_index(lines, target_cpl, gauss)
    IN  [mv |-> lines[i][1], cpl |-> lines[i][2] - best_cp_of(lines)]

\* the fallback returning its distance best_diff in place of the loss
choose_returning_diff(lines, target_cpl, last_engine_cpl, gauss) ==
    LET i == choose_index(lines, target_cpl, gauss)
        hit == scan_from(lines, 1, desired_of(gauss), epsilon_of(target_cpl))
    IN  [mv |-> lines[i][1],
         cpl |-> IF hit # 0 THEN delta_of(lines, i)
                 ELSE Abs(delta_of(lines, i) - desired_of(gauss))]

\* the returned pair (mv, loss); last_engine_cpl only enters sigma, and sigma
\* only enters the distribution gauss is drawn from
choose_by_target_cpl(lines, target_cpl, last_engine_cpl, gauss) ==
    LET i == choose_index(lines, target_cpl, gauss)
    IN  [mv |-> lines[i][1], cpl |-> Max(0, best_cp_of(lines) - lines[i][2])]

---------------------------------------------------------------------------
(* The analysis engine's answers and _score_to_cp, src/app.py:59-63        *)
(* A Score is [mate, v]: a mate distance v when mate, else centipawns v.   *)
(* A PovScore is [turn, rel]: rel is the score as seen by colour turn.     *)

Cp(v) == [mate |-> FALSE, v |-> v]
Mate(v) == [mate |-> TRUE, v |-> v]
NegScore(s) == [s EXCEPT !.v = -s.v]
PovScore(rel, turn) == [turn |-> turn, rel |-> rel]

\* the score taken as the engine gave it, whichever side is asked for
pov_of_relative(score, colour) == score.rel

\* score.white() / score.black() of line 60: the score as it is when the
\* side asked for is the one the engine reported it for, negated otherwise.
\* (Negating a mate of distance 0 gives a mate of distance 0 again: the
\* library's Mate(0) and MateGiven both answer mate() with 0.)
pov_of(score, colour) == IF score.turn = colour THEN score.rel ELSE NegScore(score.rel)

\* lines 59-63
score_to_cp(score, pov_white) ==
    LET s == pov_of(score, pov_white = WHITE)
    IN  IF s.mate
        THEN (IF s.v # 0 /\ s.v > 0 THEN 100000 ELSE -100000)
        ELSE s.v

---------------------------------------------------------------------------
(* _multipv, src/app.py:65-76                                              *)
(* info is what engine.analyse returned: a sequence of [pv, score], pv a   *)
(* sequence of moves (empty when missing) and score <<>> (missing) or      *)
(* <<PovScore>>.                                                           *)

\* lines 69-74: the usable lines in the engine's order
RECURSIVE usable_lines(_, _)
usable_lines(info, pov_white) ==
    IF info = <<>> THEN <<>>
    ELSE LET i == Head(info)
             rest == usable_lines(Tail(info), pov_white)
         IN  IF i.pv = <<>> \/ i.score = <<>> THEN rest
             ELSE <<(<<i.pv[1], score_to_cp(i.score[1], pov_white)>>)>> \o rest

\* list.sort(key = cp, reverse = True) of line 75: stable, so a line goes
\* behind every line of greater or equal cp already placed
RECURSIVE insert_desc(_, _)
insert_desc(sorted, l) ==
    IF sorted = <<>> THEN <<l>>
    ELSE IF Head(sorted)[2] >= l[2] THEN <<Head(sorted)>> \o insert_desc(Tail(sorted), l)
    ELSE <<l>> \o sorted

\* the lines left in the order the engine gave them
sort_not_done(lines) == lines

RECURSIVE sort_desc(_)
sort_desc(lines) ==
    IF lines = <<>> THEN <<>>
    ELSE insert_desc(sort_desc(SubSeq(lines, 1, Len(lines) - 1)), lines[Len(lines)])

\* engine.analyse(..., multipv = mpv) gives at most mpv lines
analyse(answer, mpv) == SubSeq(answer, 1, Min(mpv, Len(answer)))

\* lines 65-76
multipv(answer, pov_white, mpv) == sort_desc(usable_lines(analyse(answer, mpv), pov_white))

---------------------------------------------------------------------------
(* engine_pick_move, src/app.py:106-120                                    *)
(* The result: exc the exception raised (None when it returns), ret the    *)
(* returned pair (<<>> when it raises), tilt the value of LAST_ENGINE_CPL  *)
(* it leaves, lines what _multipv gave it, queries the number of requests  *)
(* it made to the analysis engine, chose whether it called                 *)
(* _choose_by_target_cpl, tilt_read the tilt handed to it (<<>> if none).  *)

engine_pick_move(mode_name, tilt, answer, pov_white, play_mv, gauss) ==
    Bind(CPL_MODES_getitem(mode_name), LAMBDA got :
    IF got.exc # None
    THEN [exc |-> got.exc, ret |-> <<>>, tilt |-> tilt, lines |-> <<>>,
          queries |-> 0, chose |-> FALSE, tilt_read |-> <<>>]
    ELSE
    Bind(multipv(answer, pov_white, got.val[1].mpv), LAMBDA lines :
    LET p == got.val[1]
    IN  IF lines = <<>>
        THEN [exc |-> None, ret |-> <<[mv |-> play_mv, cpl |-> 0]>>, tilt |-> 0,
              lines |-> lines, queries |-> 2, chose |-> FALSE, tilt_read |-> <<>>]
        ELSE IF p.perfect
        THEN [exc |-> None, ret |-> <<[mv |-> lines[1][1], cpl |-> 0]>>, tilt |-> 0,
              lines |-> lines, queries |-> 1, chose |-> FALSE, tilt_read |-> <<>>]
        ELSE Bind(choose_by_target_cpl(lines, p.target, tilt, gauss), LAMBDA r :
             [exc |-> None, ret |-> <<r>>, tilt |-> r.cpl,
              lines |-> lines, queries |-> 1, chose |-> TRUE, tilt_read |-> <<tilt>>])))

---------------------------------------------------------------------------
(* The rules engine (the chess package), as app.py uses it. A position is  *)
(* the move history from the initial position; squares are chess's 0..63.  *)
(* The rules themselves are outside the repository: a small fixed set of   *)
(* squares and moves stands for them, with a move legal as written, a move *)
(* legal only as a queen promotion, a move that ends the game, and         *)
(* attempts that are illegal either way.                                   *)

QUEEN == "QUEEN"
NoPromotion == "None"
NoSquare == <<>>

\* chess.Move(src, dst, promotion), lines 206 and 211
Move(src, dst, promotion) == [from_square |-> src, to_square |-> dst, promotion |-> promotion]

Squares == {12, 28, 48, 56}
EndingMove == Move(28, 56, NoPromotion)
LegalTable == {Move(12, 28, NoPromotion), Move(48, 56, QUEEN), EndingMove}

\* chess.square_rank, line 209
square_rank(sq) == sq \div 8

\* board.turn: White moves first
turn(board) == IF Len(board) % 2 = 0 THEN WHITE ELSE BLACK

\* board.is_game_over(), line 249
is_game_over(board) == board # <<>> /\ board[Len(board)] = EndingMove

\* mv in board.legal_moves, lines 207 and 212
is_legal(board, mv) == ~is_game_over(board) /\ mv \in LegalTable

\* board.piece_at(src) is a pawn, line 208
pawn_at(board, sq) == sq \in {12, 48}

\* _sq_from_xy, lines 155-158
sq_from_xy(flipped, x, y) == IF flipped THEN y * 8 + (7 - x) ELSE (7 - y) * 8 + x

---------------------------------------------------------------------------
(* What the analysis engine may answer (inputs of the handlers)            *)

CandidateMoves == {Move(12, 28, NoPromotion), Move(48, 56, QUEEN)}

\* what the engine may say of a position, scores relative to the side to
\* move: lines with move and score, a line without pv, a line without score
EngineAnswers ==
    LET a == [pv |-> <<Move(12, 28, NoPromotion)>>, score |-> <<Cp(50)>>]
        b == [pv |-> <<Move(48, 56, QUEEN)>>, score |-> <<Cp(-90)>>]
        m == [pv |-> <<EndingMove>>, score |-> <<Mate(1)>>]
        nopv == [pv |-> <<>>, score |-> <<Cp(10)>>]
        nosc == [pv |-> <<EndingMove>>, score |-> <<>>]
    IN  {<<>>, <<a>>, <<b, a>>, <<a, m, b>>, <<nopv, nosc>>, <<nosc, b, m>>}

\* engine.analyse(board, ...) of lines 66 and 232: the engine reports each
\* score as a PovScore of the side to move in board
engine_analyse(board, answer) ==
    [i \in DOMAIN answer |->
        [pv |-> answer[i].pv,
         score |-> IF answer[i].score = <<>> THEN <<>>
                   ELSE <<PovScore(answer[i].score[1], turn(board))>>]]

\* results of int(random.gauss(target, sigma)) tried in the session
SessionGauss == {-7, 30, 150}

\* single-line scores of the position after a human move
PostScores == {Cp(-60), Cp(200), Mate(-2), Mate(3)}

\* everything the environment supplies to one handler: the engine's answer
\* to the human-move ranking, the score of the position after the human's
\* move, the engine's answer to the ranking for its own move, the move of
\* engine.play, and the truncated Gaussian sample
Envs ==
    [answer_h : EngineAnswers, post : PostScores, answer_e : EngineAnswers,
     play_mv : CandidateMoves, gauss : SessionGauss]

QuietEnv ==
    [answer_h |-> <<>>, post |-> Cp(0), answer_e |-> <<>>,
     play_mv |-> Move(12, 28, NoPromotion), gauss |-> 0]

---------------------------------------------------------------------------
(* BoardWidget, src/app.py:121-267                                         *)

\* __init__, lines 122-139
BoardWidget_init ==
    [board |-> <<>>, origin |-> NoSquare, mode |-> "CPL 30", analysis_enabled |-> TRUE,
     pov_color |-> WHITE, human_color |-> BLACK, flipped |-> FALSE,
     cpl_sum_me |-> 0, cpl_cnt_me |-> 0, cpl_sum_engine |-> 0, cpl_cnt_engine |-> 0]

\* set_pov_and_control, lines 141-146
set_pov_and_control(bw, pov_color) ==
    [bw EXCEPT !.pov_color = pov_color,
               !.human_color = IF pov_color = WHITE THEN BLACK ELSE WHITE,
               !.flipped = (pov_color = BLACK)]

\* avg_cpl_me and avg_cpl_engine, lines 149-152: the quotient sum / count as
\* the fraction [num, den], and 0.0 as 0/1 when nothing was counted
avg_cpl_me(bw) ==
    IF bw.cpl_cnt_me # 0 THEN [num |-> bw.cpl_sum_me, den |-> bw.cpl_cnt_me]
    ELSE [num |-> 0, den |-> 1]

avg_cpl_engine(bw) ==
    IF bw.cpl_cnt_engine # 0 THEN [num |-> bw.cpl_sum_engine, den |-> bw.cpl_cnt_engine]
    ELSE [num |-> 0, den |-> 1]

\* What a handler leaves: the widget, the tilt, the exception that ended it
\* (None if none), how it ended, the engine requests it made, its calls of
\* engine_pick_move, and its evaluation of the human's move (<<>> if none).
Result(bw, tilt, exc, outcome, queries, picks, human) ==
    [bw |-> bw, tilt |-> tilt, exc |-> exc, outcome |-> outcome,
     queries |-> queries, picks |-> picks, human |-> human]

\* _engine_move_and_update, lines 254-267, entered after `before` engine
\* requests and the evaluation `human` of the human's move. A pick records
\* the call of engine_pick_move: the mode, the tilt and the board it found,
\* what the engine has to say of that board (answer to the ranking, play_mv to
\* engine.play), the random sample gauss, and the call's outcome r.
engine_move_and_update(bw, tilt, e, before, human) ==
    Bind(engine_pick_move(bw.mode, tilt, engine_analyse(bw.board, e.answer_e),
                          turn(bw.board), e.play_mv, e.gauss), LAMBDA r :
    LET pick == [mode |-> bw.mode, tilt_before |-> tilt, board |-> bw.board,
                 answer |-> e.answer_e, play_mv |-> e.play_mv, gauss |-> e.gauss,
                 r |-> r]
    IN  IF r.exc # None
        THEN Result(bw, r.tilt, r.exc, "raised", before + r.queries, <<pick>>, human)
        ELSE Result([bw EXCEPT
                       !.board = Append(@, r.ret[1].mv),
                       !.cpl_sum_engine = IF bw.analysis_enabled THEN @ + r.ret[1].cpl ELSE @,
                       !.cpl_cnt_engine = IF bw.analysis_enabled THEN @ + 1 ELSE @],
                    r.tilt, None, "moved", before + r.queries, <<pick>>, human))

\* lines 227-229: the index of the first ranked line whose move is mv, 0 if none
RECURSIVE index_of_move(_, _, _)
index_of_move(lines, mv, i) ==
    IF i > Len(lines) THEN 0
    ELSE IF lines[i][1] = mv THEN i
    ELSE index_of_move(lines, mv, i + 1)

\* lines 225-234: the loss of move mv given the non-empty ranking of the
\* position before it and the single-line score post of the position after it
\* (a Score relative to the side to move there, whose colour is post_turn)
my_cpl_of(lines, mv, post, post_turn) ==
    LET best_cp == lines[1][2]
        i == index_of_move(lines, mv, 1)
        chosen_cp == IF i # 0 THEN lines[i][2]
                     ELSE -score_to_cp(PovScore(post, post_turn), post_turn = WHITE)
    IN  Max(0, best_cp - chosen_cp)

\* lines 219-234 of _try_play: the loss of the human's move mv on bw.board.
\* The result: exc, my_cpl, the engine requests made, the ranking, whether
\* mv was in it.
human_move_cpl(bw, mv, e) ==
    IF ~bw.analysis_enabled
    THEN [exc |-> None, my_cpl |-> 0, queries |-> 0, lines |-> <<>>, ranked |-> FALSE]
    ELSE
    Bind(CPL_MODES_getitem(bw.mode), LAMBDA got :
    IF got.exc # None
    THEN [exc |-> got.exc, my_cpl |-> 0, queries |-> 0, lines |-> <<>>, ranked |-> FALSE]
    ELSE
    Bind(multipv(engine_analyse(bw.board, e.answer_h), turn(bw.board),
                 Max(6, got.val[1].mpv)), LAMBDA lines :
    IF lines = <<>>
    THEN [exc |-> None, my_cpl |-> 0, queries |-> 1, lines |-> lines, ranked |-> FALSE]
    ELSE
    LET ranked == index_of_move(lines, mv, 1) # 0
    IN  [exc |-> None,
         my_cpl |-> my_cpl_of(lines, mv, e.post, turn(Append(bw.board, mv))),
         queries |-> IF ranked THEN 1 ELSE 2, lines |-> lines, ranked |-> ranked]))

\* the promotion retry taken as legal without the second look at legal_moves
attempted_move_retry_unchecked(board, src, dst_sq) ==
    LET mv0 == Move(src, dst_sq, NoPromotion)
        legal0 == is_legal(board, mv0)
        retry == ~legal0 /\ pawn_at(board, src) /\ square_rank(dst_sq) \in {0, 7}
    IN  IF retry THEN <<Move(src, dst_sq, QUEEN)>>
        ELSE IF legal0 THEN <<mv0>> ELSE <<>>

\* lines 201-212 of _try_play: the move built from the clicks, <<>> if the
\* attempt is not legal even after the queen-promotion retry
attempted_move(board, src, dst_sq) ==
    LET mv0 == Move(src, dst_sq, NoPromotion)
        legal0 == is_legal(board, mv0)
        retry == ~legal0 /\ pawn_at(board, src) /\ square_rank(dst_sq) \in {0, 7}
        mv == IF retry THEN Move(src, dst_sq, QUEEN) ELSE mv0
        legal == IF retry THEN is_legal(board, mv) ELSE legal0
    IN  IF legal THEN <<mv>> ELSE <<>>

\* the reply asked for without the look at is_game_over
play_and_reply_unchecked(bw, tilt, mv, ev, e) ==
    LET h == <<[mv |-> mv, board |-> bw.board, answer |-> e.answer_h,
                post |-> e.post, ev |-> ev]>>
    IN  Bind([bw EXCEPT
                !.board = Append(@, mv),
                !.cpl_sum_me = IF bw.analysis_enabled THEN @ + ev.my_cpl ELSE @,
                !.cpl_cnt_me = IF bw.analysis_enabled THEN @ + 1 ELSE @], LAMBDA bw1 :
        engine_move_and_update(bw1, tilt, e, ev.queries, h))

\* lines 236-252 of _try_play: the move is applied, counted, and answered
play_and_reply(bw, tilt, mv, ev, e) ==
    LET h == <<[mv |-> mv, board |-> bw.board, answer |-> e.answer_h,
                post |-> e.post, ev |-> ev]>>
    IN  Bind([bw EXCEPT
                !.board = Append(@, mv),
                !.cpl_sum_me = IF bw.analysis_enabled THEN @ + ev.my_cpl ELSE @,
                !.cpl_cnt_me = IF bw.analysis_enabled THEN @ + 1 ELSE @], LAMBDA bw1 :
        IF is_game_over(bw1.board)
        THEN Result(bw1, tilt, None, "played", ev.queries, <<>>, h)
        ELSE engine_move_and_update(bw1, tilt, e, ev.queries, h))

\* _try_play, lines 193-252. The evaluation of the human's move records the
\* move, the board it is played on, what the engine has to say of the position
\* before it (answer) and after it (post), and the outcome ev of lines 219-234.
try_play(bw, tilt, dst_sq, e) ==
    Bind([bw EXCEPT !.origin = NoSquare], LAMBDA bw0 :
    IF turn(bw.board) # bw.human_color
    THEN Result(bw0, tilt, None, "not_turn", 0, <<>>, <<>>)
    ELSE IF bw.origin = NoSquare
    THEN Result(bw0, tilt, None, "no_origin", 0, <<>>, <<>>)
    ELSE
    Bind(attempted_move(bw.board, bw.origin[1], dst_sq), LAMBDA try :
    IF try = <<>>
    THEN Result(bw0, tilt, None, "illegal", 0, <<>>, <<>>)
    ELSE
    Bind(human_move_cpl(bw0, try[1], e), LAMBDA ev :
    IF ev.exc # None
    THEN Result(bw0, tilt, ev.exc, "raised", ev.queries, <<>>,
                <<[mv |-> try[1], board |-> bw.board, answer |-> e.answer_h,
                   post |-> e.post, ev |-> ev]>>)
    ELSE play_and_reply(bw0, tilt, try[1], ev, e))))

\* mousePressEvent with the left button on cell (x, y), lines 178-190
mouse_press(bw, tilt, x, y, e) ==
    LET sq == sq_from_xy(bw.flipped, x, y)
    IN  IF bw.origin = NoSquare
        THEN Result([bw EXCEPT !.origin = <<sq>>], tilt, None, "selected", 0, <<>>, <<>>)
        ELSE try_play(bw, tilt, sq, e)

---------------------------------------------------------------------------
(* MainWindow, src/app.py:270-404                                          *)

\* __init__, lines 277-294: the colours, and the check box of line 294.
\* int_eq_enum: whether the int that stateChanged delivers compares equal
\* to the enum member Qt.Checked, which depends on the PySide6 build.
MainWindow_init(int_eq_enum) ==
    [pov_color |-> WHITE, human_color |-> BLACK, engine_color |-> WHITE,
     chk_analysis |-> TRUE, int_eq_enum |-> int_eq_enum]

SideTexts == {"Blancas (POV)", "Negras (POV)"}

\* v.startswith("Blancas"), line 368
pov_of_text(v) == IF v = "Blancas (POV)" THEN WHITE ELSE BLACK

\* lines 368-374 of on_side_changed
side_colours(w, v) ==
    LET pov == pov_of_text(v)
    IN  [w EXCEPT !.pov_color = pov,
                  !.human_color = IF pov = WHITE THEN BLACK ELSE WHITE,
                  !.engine_color = pov]

\* on_side_changed, lines 366-382: what it leaves of the widget and the tilt
\* (the window's colours are side_colours(w, v))
on_side_changed(w, bw, tilt, v, e) ==
    Bind(side_colours(w, v), LAMBDA w1 :
    Bind(set_pov_and_control(bw, w1.pov_color), LAMBDA bw1 :
    IF Len(bw1.board) = 0 /\ turn(bw1.board) = w1.engine_color
    THEN engine_move_and_update(bw1, tilt, e, 0, <<>>)
    ELSE Result(bw1, tilt, None, "done", 0, <<>>, <<>>)))

\* on_analysis_toggled, lines 384-386; state is 2 (checked) or 0
on_analysis_toggled(w, bw, state) ==
    [bw EXCEPT !.analysis_enabled = (w.int_eq_enum /\ state = 2)]

\* on_mode_changed, lines 363-364
on_mode_changed(bw, v) == [bw EXCEPT !.mode = v]

\* an undo that takes back one ply
on_undo_one(bw) ==
    [bw EXCEPT !.board = SubSeq(@, 1, Max(0, Len(@) - 1)), !.origin = NoSquare]

\* on_undo_pair, lines 388-393
on_undo_pair(bw) ==
    [bw EXCEPT !.board = SubSeq(@, 1, Max(0, Len(@) - 2)), !.origin = NoSquare]

\* on_reset, lines 395-404
on_reset(w, bw, tilt, e) ==
    Bind(set_pov_and_control(
             [bw EXCEPT !.board = <<>>, !.origin = NoSquare,
                        !.cpl_sum_me = 0, !.cpl_sum_engine = 0,
                        !.cpl_cnt_me = 0, !.cpl_cnt_engine = 0], w.pov_color), LAMBDA bw2 :
    IF turn(bw2.board) = w.engine_color
    THEN engine_move_and_update(bw2, tilt, e, 0, <<>>)
    ELSE Result(bw2, tilt, None, "done", 0, <<>>, <<>>))

---------------------------------------------------------------------------
(* The session: the handlers as the events of the user interface           *)

\* The environments a handler is run on, given its outcome r0 on the quiet
\* one. A handler that made engine requests is run on every environment. One
\* that made none has an outcome that does not depend on the environment;
\* what the engine would have said of the position of a pick, or of a human
\* move, is still drawn, so that the observation records it.
EnvsFor(r0) ==
    IF r0.queries > 0 THEN Envs
    ELSE IF r0.picks # <<>>
    THEN {[QuietEnv EXCEPT !.answer_e = a] : a \in EngineAnswers}
    ELSE IF r0.human # <<>>
    THEN {[QuietEnv EXCEPT !.answer_h = a, !.post = p] : a \in EngineAnswers, p \in PostScores}
    ELSE {QuietEnv}

\* the observation of a handler: its name, its input, and its outcome
Observed(op, input, r) ==
    [op |-> op, input |-> input, outcome |-> r.outcome, exc |-> r.exc,
     queries |-> r.queries, picks |-> r.picks, human |-> r.human]

Quiet(op) ==
    [op |-> op, input |-> <<>>, outcome |-> "done", exc |-> None, queries |-> 0,
     picks |-> <<>>, human |-> <<>>]

\* the modes the user switches between
SessionModes == {"Perfecto (~1)", "CPL 30", "CPL 70"}

\* The state BoardWidget.__init__ (lines 122-139) and MainWindow.__init__
\* lines 277-294 establish. fn_in and fn_out belong to the direct calls.
Init ==
    /\ boardw = set_pov_and_control(BoardWidget_init, WHITE)
    /\ win \in {MainWindow_init(b) : b \in BOOLEAN}
    /\ LAST_ENGINE_CPL = 0
    /\ last = Quiet("init")
    /\ fn_in = <<>>
    /\ fn_out = <<>>

MousePress ==
    /\ Len(boardw.board) + 2 <= MaxPly
    /\ \E x \in 0..7, y \in 0..7 :
        /\ sq_from_xy(boardw.flipped, x, y) \in Squares
        /\ \E r0 \in {mouse_press(boardw, LAST_ENGINE_CPL, x, y, QuietEnv)} :
           \E e \in EnvsFor(r0) :
           \E r \in {mouse_press(boardw, LAST_ENGINE_CPL, x, y, e)} :
            /\ boardw' = r.bw
            /\ LAST_ENGINE_CPL' = r.tilt
            /\ last' = Observed("mouse_press",
                                [src |-> boardw.origin, dst |-> sq_from_xy(boardw.flipped, x, y)], r)
    /\ UNCHANGED <<win, fn_in, fn_out>>

\* currentTextChanged fires when another entry is selected (line 323)
OnSideChanged ==
    /\ Len(boardw.board) + 1 <= MaxPly
    /\ \E v \in SideTexts :
        /\ pov_of_text(v) # win.pov_color
        /\ \E r0 \in {on_side_changed(win, boardw, LAST_ENGINE_CPL, v, QuietEnv)} :
           \E e \in EnvsFor(r0) :
           \E r \in {on_side_changed(win, boardw, LAST_ENGINE_CPL, v, e)} :
            /\ boardw' = r.bw
            /\ win' = side_colours(win, v)
            /\ LAST_ENGINE_CPL' = r.tilt
            /\ last' = Observed("on_side_changed", <<>>, r)
    /\ UNCHANGED <<fn_in, fn_out>>

\* stateChanged delivers the new state of the check box (line 324)
OnAnalysisToggled ==
    /\ LET state == IF win.chk_analysis THEN 0 ELSE 2
       IN  /\ boardw' = on_analysis_toggled(win, boardw, state)
           /\ win' = [win EXCEPT !.chk_analysis = (state = 2)]
    /\ last' = Quiet("on_analysis_toggled")
    /\ UNCHANGED <<LAST_ENGINE_CPL, fn_in, fn_out>>

\* currentTextChanged fires when another mode is selected (line 322)
OnModeChanged ==
    /\ \E v \in SessionModes :
        /\ v # boardw.mode
        /\ boardw' = on_mode_changed(boardw, v)
    /\ last' = Quiet("on_mode_changed")
    /\ UNCHANGED <<win, LAST_ENGINE_CPL, fn_in, fn_out>>

\* the observation keeps the number of plies the handler found
OnUndoPair ==
    /\ boardw' = on_undo_pair(boardw)
    /\ last' = [Quiet("on_undo_pair") EXCEPT !.input = <<Len(boardw.board)>>]
    /\ UNCHANGED <<win, LAST_ENGINE_CPL, fn_in, fn_out>>

OnReset ==
    /\ \E r0 \in {on_reset(win, boardw, LAST_ENGINE_CPL, QuietEnv)} :
       \E e \in EnvsFor(r0) :
       \E r \in {on_reset(win, boardw, LAST_ENGINE_CPL, e)} :
        /\ boardw' = r.bw
        /\ LAST_ENGINE_CPL' = r.tilt
        /\ last' = Observed("on_reset", <<>>, r)
    /\ UNCHANGED <<win, fn_in, fn_out>>

Next ==
    \/ MousePress
    \/ OnSideChanged
    \/ OnAnalysisToggled
    \/ OnModeChanged
    \/ OnUndoPair
    \/ OnReset

Spec == Init /\ [][Next]_vars

---------------------------------------------------------------------------
(* Direct calls of _choose_by_target_cpl(lines, target_cpl, last_engine_cpl) *)

MoveNames == <<"e4", "d4", "Nf3", "a3", "h4", "b3", "g4">>

\* scores of the candidate lines: centipawns and the two mate sentinels
ChooseScores == {-100000, -20, 10, 40, 50, 100000}

\* the ranked lists _multipv can hand over: non-empty, scores non-increasing
ChooseLines ==
    UNION {
        {[i \in 1..n |-> <<MoveNames[i], f[i]>>] :
            f \in {g \in [1..n -> ChooseScores] : \A i \in 1..(n - 1) : g[i] >= g[i + 1]}}
        : n \in 1..MaxLines}

\* values of int(random.gauss(target_cpl, sigma))
ChooseGauss == {-5, 0, 4, 13, 38, 45, 75, 200000}

\* values of the tilt handed over
ChooseTilts == {0, 119, 120}

InitChoose ==
    /\ boardw = set_pov_and_control(BoardWidget_init, WHITE)
    /\ win = MainWindow_init(TRUE)
    /\ LAST_ENGINE_CPL = 0
    /\ last = Quiet("init")
    /\ fn_in \in [lines : ChooseLines, target_cpl : Targets,
                  last_engine_cpl : ChooseTilts, gauss : ChooseGauss]
    /\ fn_out = <<>>

\* the call; sigma is the local of lines 84-87 at the time of line 89
CallChoose ==
    /\ fn_out = <<>>
    /\ fn_out' = <<[ret |-> choose_by_target_cpl(fn_in.lines, fn_in.target_cpl,
                                                 fn_in.last_engine_cpl, fn_in.gauss),
                    sigma |-> sigma_of(fn_in.lines, fn_in.target_cpl, fn_in.last_engine_cpl)]>>
    /\ UNCHANGED <<boardw, win, LAST_ENGINE_CPL, last, fn_in>>

NextChoose == CallChoose

SpecChoose == InitChoose /\ [][NextChoose]_vars

---------------------------------------------------------------------------
(* Direct calls of _score_to_cp(score, pov_white)                          *)

\* centipawn values and mate distances of the evaluations handed over
CpValues == {-100000, -300, -90, -1, 0, 1, 50, 75, 300, 100000}
MateValues == {-12, -2, -1, 0, 1, 3, 12}

\* the evaluations: a Score as seen by either colour
PovScores ==
    {PovScore(s, t) : s \in {Cp(v) : v \in CpValues} \cup {Mate(v) : v \in MateValues},
                      t \in {WHITE, BLACK}}

InitScoreToCp ==
    /\ boardw = set_pov_and_control(BoardWidget_init, WHITE)
    /\ win = MainWindow_init(TRUE)
    /\ LAST_ENGINE_CPL = 0
    /\ last = Quiet("init")
    /\ fn_in \in [score : PovScores, pov_white : BOOLEAN]
    /\ fn_out = <<>>

CallScoreToCp ==
    /\ fn_out = <<>>
    /\ fn_out' = <<score_to_cp(fn_in.score, fn_in.pov_white)>>
    /\ UNCHANGED <<boardw, win, LAST_ENGINE_CPL, last, fn_in>>

NextScoreToCp == CallScoreToCp

SpecScoreToCp == InitScoreToCp /\ [][NextScoreToCp]_vars

---------------------------------------------------------------------------
(* Direct calls of _multipv(board, depth, mpv)                             *)

\* longest answer of the analysis engine drawn for a direct call
MaxInfo == 4

\* the lines the engine may answer with, scores relative to the side to move:
\* lines with a principal variation and a score (two of them of equal score,
\* mates for either side), a line without pv, a line without score
InfoEntries ==
    {[pv |-> <<Move(12, 28, NoPromotion), Move(48, 56, QUEEN)>>, score |-> <<Cp(50)>>],
     [pv |-> <<Move(48, 56, QUEEN)>>, score |-> <<Cp(-90)>>],
     [pv |-> <<Move(28, 56, NoPromotion)>>, score |-> <<Cp(50)>>],
     [pv |-> <<Move(28, 56, NoPromotion)>>, score |-> <<Mate(1)>>],
     [pv |-> <<Move(12, 28, NoPromotion)>>, score |-> <<Mate(-2)>>],
     [pv |-> <<>>, score |-> <<Cp(10)>>],
     [pv |-> <<Move(12, 28, NoPromotion)>>, score |-> <<>>]}

\* the engine's answers: up to MaxInfo lines
InfoAnswers == UNION {[1..n -> InfoEntries] : n \in 0..MaxInfo}

\* positions with White and with Black to move
MultipvBoards == {<<>>, <<Move(12, 28, NoPromotion)>>}

\* the breadths asked for
MultipvBreadths == {1, 2, 6}

InitMultipv ==
    /\ boardw = set_pov_and_control(BoardWidget_init, WHITE)
    /\ win = MainWindow_init(TRUE)
    /\ LAST_ENGINE_CPL = 0
    /\ last = Quiet("init")
    /\ fn_in \in [board : MultipvBoards, answer : InfoAnswers, mpv : MultipvBreadths]
    /\ fn_out = <<>>

\* the call: line 66 asks the engine about board, line 67 takes the side to
\* move there
CallMultipv ==
    /\ fn_out = <<>>
    /\ fn_out' = <<multipv(engine_analyse(fn_in.board, fn_in.answer),
                           turn(fn_in.board), fn_in.mpv)>>
    /\ UNCHANGED <<boardw, win, LAST_ENGINE_CPL, last, fn_in>>

NextMultipv == CallMultipv

SpecMultipv == InitMultipv /\ [][NextMultipv]_vars

---------------------------------------------------------------------------
(* Properties                                                              *)

\* the ranking _multipv gives for the position and the engine answer of a pick
RankingOf(k) ==
    multipv(engine_analyse(k.board, k.answer), turn(k.board), ModesDict[k.mode].mpv)

MinOf(S) == CHOOSE i \in S : \A k \in S : i <= k

\* C1: every selection for a perfect tier over a non-empty ranking returns the
\* best-ranked candidate with loss 0 and leaves the tilt memory at 0.
C1_PerfectPicksBest ==
    \A n \in DOMAIN last.picks :
        LET k == last.picks[n]
        IN  (ModesDict[k.mode].perfect /\ RankingOf(k) # <<>>) =>
                /\ k.r.ret = <<[mv |-> RankingOf(k)[1][1], cpl |-> 0]>>
                /\ LAST_ENGINE_CPL = 0

\* C2: on a ranking with non-increasing scores, a non-perfect target and any
\* desired loss, _choose_by_target_cpl returns the first candidate in ranked
\* order whose loss max(0, best - score) is at least desired - max(3, target/10)
\* and, when there is none, the earliest candidate of least |loss - desired|;
\* the returned loss is that candidate's. (The threshold is compared in tenths.)
C2_SatisficingThenNearest ==
    (fn_out # <<>> /\ fn_in.target_cpl \in NonPerfectTargets) =>
        LET lines == fn_in.lines
            t == fn_in.target_cpl
            desired == IF fn_in.gauss > 0 THEN fn_in.gauss ELSE 0
            best == lines[1][2]
            delta(i) == IF best - lines[i][2] > 0 THEN best - lines[i][2] ELSE 0
            meets(i) == 10 * delta(i) >= 10 * desired - (IF t > 30 THEN t ELSE 30)
            dist(i) == IF delta(i) >= desired THEN delta(i) - desired ELSE desired - delta(i)
            S == {i \in DOMAIN lines : meets(i)}
            N == {i \in DOMAIN lines : \A k \in DOMAIN lines : dist(i) <= dist(k)}
            j == IF S # {} THEN MinOf(S) ELSE MinOf(N)
        IN  fn_out[1].ret = [mv |-> lines[j][1], cpl |-> delta(j)]

\* C2, witness: candidates (e4,+50) (d4,+40) (Nf3,+10) (a3,-20), target 30 and a
\* desired loss of 38 gave Nf3 with loss 40, although a3 meets the threshold too
C2_ScenarioA ==
    /\ fn_out # <<>>
    /\ fn_in.lines = <<(<<"e4", 50>>), (<<"d4", 40>>), (<<"Nf3", 10>>), (<<"a3", -20>>)>>
    /\ fn_in.target_cpl = 30
    /\ fn_in.gauss = 38
    /\ fn_out[1].ret = [mv |-> "Nf3", cpl |-> 40]

\* C3: after on_reset, the first selection of the new game (made by on_reset
\* itself when the engine is to move, for a non-perfect tier over a non-empty
\* ranking) reads a tilt of 0.
C3_ResetSelectionReadsTiltZero ==
    (last.op = "on_reset" /\ last.picks # <<>>) =>
        LET k == last.picks[1]
        IN  (~ModesDict[k.mode].perfect /\ RankingOf(k) # <<>>) => k.r.tilt_read = <<0>>

\* C4: every selection returns a loss and leaves the tilt memory equal to it,
\* and the tilt memory is a non-negative integer.
C4_SelectionSetsTiltToItsLoss ==
    /\ LAST_ENGINE_CPL \in Nat
    /\ \A n \in DOMAIN last.picks :
        LET k == last.picks[n]
        IN  /\ k.r.exc = None
            /\ Len(k.r.ret) = 1
            /\ LAST_ENGINE_CPL = k.r.ret[1].cpl

C6_SingleCandidate ==
    (fn_out # <<>> /\ Len(fn_in.lines) = 1) =>
        fn_out[1].ret = [mv |-> fn_in.lines[1][1], cpl |-> 0]

\* C6, witness: one candidate, and a desired loss the scan does not accept, so
\* that the nearest-match fallback returned it
C6_SingleCandidateByFallback ==
    /\ fn_out # <<>>
    /\ Len(fn_in.lines) = 1
    /\ fn_in.gauss = 38
    /\ fn_in.last_engine_cpl = 120
    /\ scan_from(fn_in.lines, 1, 38, epsilon_of(fn_in.target_cpl)) = 0

\* C7: when the ranker has no usable line for the position, engine_pick_move
\* does not call _choose_by_target_cpl: it asks the engine for one best move
\* and returns it with loss 0, whatever the tier.
C7_NoCandidatesFallsBack ==
    \A n \in DOMAIN last.picks :
        LET k == last.picks[n]
        IN  RankingOf(k) = <<>> =>
                /\ k.r.exc = None
                /\ ~k.r.chose
                /\ Len(k.r.ret) = 1
                /\ k.r.ret[1].cpl = 0

\* whether the clicks src, dst make no legal move on board, the queen
\* promotion of a pawn reaching rank 1 or 8 included
NotLegalAttempt(board, src, dst) ==
    /\ ~is_legal(board, Move(src, dst, NoPromotion))
    /\ ~(/\ pawn_at(board, src)
         /\ square_rank(dst) \in {0, 7}
         /\ is_legal(board, Move(src, dst, QUEEN)))

\* the position, the accumulators of both sides and the tilt stay as they are
SessionUntouched ==
    /\ boardw'.board = boardw.board
    /\ boardw'.cpl_sum_me = boardw.cpl_sum_me
    /\ boardw'.cpl_cnt_me = boardw.cpl_cnt_me
    /\ boardw'.cpl_sum_engine = boardw.cpl_sum_engine
    /\ boardw'.cpl_cnt_engine = boardw.cpl_cnt_engine
    /\ LAST_ENGINE_CPL' = LAST_ENGINE_CPL

\* C8: a move submitted when it is not the human's turn, or not legal even
\* after the queen-promotion retry, leaves the position, the loss sums and
\* counts of both sides and the tilt unchanged, makes no request to the
\* analysis engine and triggers no emulated move.
C8_RejectedAttemptChangesNothing ==
    [][(/\ last'.op = "mouse_press"
        /\ boardw.origin # NoSquare
        /\ \/ turn(boardw.board) # boardw.human_color
           \/ NotLegalAttempt(boardw.board, boardw.origin[1], last'.input.dst))
       => (SessionUntouched /\ last'.queries = 0 /\ last'.picks = <<>>)]_vars

\* C8, witness: with moves on the board and the human to move, a pawn was sent
\* to the last rank by a move that is illegal even as a promotion
C8_IllegalPromotionAttempted ==
    /\ last.op = "mouse_press"
    /\ last.input.src = <<12>>
    /\ last.input.dst = 56
    /\ boardw.board # <<>>
    /\ turn(boardw.board) = boardw.human_color
    /\ ~boardw.analysis_enabled

\* the score a single-line analysis reports, as _score_to_cp normalises it for
\* the side to move
SentinelOf(score) ==
    IF score.mate THEN (IF score.v > 0 THEN 100000 ELSE -100000) ELSE score.v

\* C9: a legal human move played with live analysis enabled and a non-empty
\* ranking (breadth max(6, tier breadth)) of the position before it is applied
\* and counted once, with loss max(0, best - its score) when it is ranked and
\* max(0, best - (-s)) otherwise, s being the score of the position after it.
C9_HumanMoveEvaluated ==
    (last.op = "mouse_press" /\ last.human # <<>> /\ boardw.analysis_enabled) =>
        LET h == last.human[1]
            ranked == multipv(engine_analyse(h.board, h.answer), turn(h.board),
                              IF ModesDict[boardw.mode].mpv > 6
                              THEN ModesDict[boardw.mode].mpv ELSE 6)
            at == {i \in DOMAIN ranked : ranked[i][1] = h.mv}
            chosen == IF at # {} THEN ranked[MinOf(at)][2] ELSE -SentinelOf(h.post)
            loss == IF ranked[1][2] - chosen > 0 THEN ranked[1][2] - chosen ELSE 0
        IN  ranked # <<>> =>
                /\ h.ev.exc = None
                /\ h.ev.my_cpl = loss
                /\ Len(boardw.board) > Len(h.board)
                /\ boardw.board[Len(h.board) + 1] = h.mv
                /\ boardw.cpl_cnt_me >= 1
                /\ boardw.cpl_sum_me >= loss

C11_NeverRestsOnEmulatedTurn ==
    ~is_game_over(boardw.board) => turn(boardw.board) = boardw.human_color

C13_ScoreToCp ==
    fn_out # <<>> =>
        LET rel == fn_in.score.rel
            d == IF fn_in.score.turn = fn_in.pov_white THEN rel.v ELSE 0 - rel.v
        IN  fn_out[1] = IF rel.mate THEN (IF d > 0 THEN 100000 ELSE -100000) ELSE d

\* C13, witness: a mate of distance zero, asked for from the other side than
\* the one the engine reported it for, came out as -100000
C13_ZeroMateDistance ==
    /\ fn_out # <<>>
    /\ fn_in.score.rel = Mate(0)
    /\ fn_in.score.turn # fn_in.pov_white
    /\ fn_out[1] = -100000

\* C14: _multipv returns exactly the lines of the engine's answer that have a
\* principal variation and a score, each as (first move, score normalised
\* for the side to move in the position asked about), in non-increasing order
\* of score; an answer shorter than the breadth, or without usable lines,
\* gives the usable ones and no error.
C14_RankerReturnsUsableSorted ==
    fn_out # <<>> =>
        LET n == IF fn_in.mpv < Len(fn_in.answer) THEN fn_in.mpv ELSE Len(fn_in.answer)
            info == [i \in 1..n |-> fn_in.answer[i]]
            U == {i \in 1..n : info[i].pv # <<>> /\ info[i].score # <<>>}
            out == fn_out[1]
            line(i) == <<info[i].pv[1], SentinelOf(info[i].score[1])>>
        IN  /\ Len(out) = Cardinality(U)
            /\ \A j \in 1..(Len(out) - 1) : out[j][2] >= out[j + 1][2]
            /\ \E f \in [DOMAIN out -> U] :
                /\ \A j, k \in DOMAIN out : j # k => f[j] # f[k]
                /\ \A j \in DOMAIN out : out[j] = line(f[j])

\* C14, witness: the engine answered with fewer lines than the breadth, one of
\* them without pv, one without score, and the worse usable line ahead of the
\* better one; the two usable lines came back best first
C14_FewerAndUnusableLines ==
    /\ fn_out # <<>>
    /\ fn_in.mpv = 6
    /\ Len(fn_in.answer) = 4
    /\ fn_in.answer[1].pv = <<>>
    /\ fn_in.answer[2].score = <<Cp(-90)>>
    /\ fn_in.answer[3].score = <<>>
    /\ fn_in.answer[4].score = <<Mate(1)>>
    /\ fn_in.board # <<>>
    /\ fn_out[1] = <<(<<Move(28, 56, NoPromotion), 100000>>), (<<Move(48, 56, QUEEN), -90>>)>>

C16_TurnOwnership ==
    /\ \A n \in DOMAIN last.picks :
        LET k == last.picks[n]
        IN  /\ ~is_game_over(k.board)
            /\ turn(k.board) = win.engine_color
            /\ turn(k.board) # boardw.human_color
    /\ \A n \in DOMAIN last.human :
        turn(last.human[n].board) = boardw.human_color

\* C16, witness: in mid-game the human's move was applied and the reply of the
\* emulated side was asked for on the position after it
C16_ReplyAskedAfterHumanMove ==
    /\ last.op = "mouse_press"
    /\ last.human # <<>>
    /\ last.picks # <<>>
    /\ last.human[1].board # <<>>
    /\ last.picks[1].board = Append(last.human[1].board, last.human[1].mv)
    /\ boardw.board = last.picks[1].board

\* C17: on_undo_pair takes the last two plies off the history (one if there
\* is only one, none if it is empty), asks for no emulated move and makes no
\* engine request, and leaves the loss sums and counts of both sides, the
\* tilt, the tier and the human's colour as they were; with two plies taken
\* off, the side to move is the same as before.
C17_UndoFrame ==
    [][last'.op = "on_undo_pair" =>
        LET n == Len(boardw.board)
            r == IF n >= 2 THEN 2 ELSE n
        IN  /\ boardw'.board = SubSeq(boardw.board, 1, n - r)
            /\ last'.picks = <<>>
            /\ last'.queries = 0
            /\ boardw'.cpl_sum_me = boardw.cpl_sum_me
            /\ boardw'.cpl_cnt_me = boardw.cpl_cnt_me
            /\ boardw'.cpl_sum_engine = boardw.cpl_sum_engine
            /\ boardw'.cpl_cnt_engine = boardw.cpl_cnt_engine
            /\ LAST_ENGINE_CPL' = LAST_ENGINE_CPL
            /\ boardw'.mode = boardw.mode
            /\ boardw'.human_color = boardw.human_color
            /\ win' = win
            /\ (r = 2 => turn(boardw'.board) = turn(boardw.board))]_vars

\* C17, witness: an undo found two plies on the board and left none
C17_TwoPliesUndone ==
    /\ last.op = "on_undo_pair"
    /\ last.input = <<2>>
    /\ boardw.board = <<>>
    /\ boardw.mode # "CPL 30"

====
